---- MODULE Spec2Model ----
(***************************************************************************)
(* Authentication core of the React Native training API: the account      *)
(* lifecycle handlers register / login / refreshToken / getMe, the        *)
(* protect middleware and the global error handler, over a credential     *)
(* store and signed tokens.                                               *)
(*                                                                         *)
(* Every handler is an async function; it is cut into one action per      *)
(* store operation it awaits (the store executes one operation at a time, *)
(* the synchronous code that follows an await runs with it).  Requests    *)
(* in flight sit in slots; every response is appended to history.         *)
(* Time is the clock in whole seconds that jsonwebtoken stamps into iat   *)
(* and compares with exp.                                                  *)
(***************************************************************************)
EXTENDS Integers, Sequences, FiniteSets, TLC

\* ------------------------------------------------------------------ bounds
Emails == {"a@x.com", "b@x.com"}
Passwords == {"secret1", "secret2"}
RegisterPasswords == {"secret1"}
MaxRequests == 3        \* requests served in one behaviour
MaxInFlight == 2        \* requests being handled at the same time
MaxTime == 2            \* seconds the clock runs
AccessTtl == 1          \* seconds an access token lives  (jwtExpiresIn, scaled)
RefreshTtl == 2         \* seconds a refresh token lives (jwtRefreshExpiresIn, scaled)

VARIABLES config, users, now, slots, history, began, roleReq,
          tasks, calls, proc

vars == <<config, users, now, slots, history, began, roleReq,
          tasks, calls, proc>>

\* what the authentication handlers never touch
untracked == <<roleReq, tasks, calls, proc>>

rest == <<began, untracked>>

\* ------------------------------------------------------------------ config
\* the configuration the server starts with when the environment sets
\* neither JWT_SECRET nor JWT_REFRESH_SECRET
DefaultConfig ==
    [jwtSecret |-> "your-secret-key", jwtRefreshSecret |-> "your-refresh-secret-key"]

\* ------------------------------------------------------------------ tokens
\* A token string is represented by what determines it.  str is the shape
\* of the string: "absent" (undefined), "empty" (""), "garbage" (not a JWT)
\* or "jwt"; a JWT is determined by its payload (id, email, role, iat, exp)
\* and the secret that signed it, so two signatures of the same payload in
\* the same second with the same secret are the same string.
Undefined == "undefined"

NoToken == [str |-> "absent", secret |-> "", id |-> 0, email |-> Undefined,
            role |-> Undefined, iat |-> 0, exp |-> 0]

EmptyToken == [NoToken EXCEPT !.str = "empty"]

Garbage == [NoToken EXCEPT !.str = "garbage"]

\* JavaScript truthiness of a string-or-undefined value
Truthy(token) == token.str \notin {"absent", "empty"}

\* jwt.sign(payload, secret, { expiresIn })
sign(payload, secret, expiresIn, t) ==
    [str |-> "jwt", secret |-> secret, id |-> payload.id, email |-> payload.email,
     role |-> payload.role, iat |-> t, exp |-> t + expiresIn]

\* jwt.verify with ignoreExpiration: the signature alone decides
verifyIgnoringExpiration(token, secret, t) ==
    /\ token.str = "jwt"
    /\ token.secret = secret

\* jwt.verify that takes a token in its last second for expired
verifyExpiresEarly(token, secret, t) ==
    /\ token.str = "jwt"
    /\ token.secret = secret
    /\ t + 1 < token.exp

\* jwt.verify(token, secret): throws unless the token is a JWT signed with
\* secret whose exp is still in the future (clockTimestamp >= exp: expired)
verify(token, secret, t) ==
    /\ token.str = "jwt"
    /\ token.secret = secret
    /\ t < token.exp

AccessPayload(id, email, role) == [id |-> id, email |-> email, role |-> role]

RefreshPayload(id) == [id |-> id, email |-> Undefined, role |-> Undefined]

\* ------------------------------------------------------------------ store
\* users is the User collection; a document's _id is its index.
HashPassword(p) == <<"bcrypt", p>>

comparePassword(doc, candidate) == doc.password = HashPassword(candidate)

NoDoc == [id |-> 0, email |-> "", password |-> <<"bcrypt", "">>, role |-> Undefined]

DocOf(i) == [id |-> i, email |-> users[i].email, password |-> users[i].password,
             role |-> users[i].role]

\* User.findOne({ email }): the _id of the match, 0 for null
findOneByEmail(us, email) ==
    IF \E i \in 1..Len(us) : us[i].email = email
    THEN CHOOSE i \in 1..Len(us) :
            /\ us[i].email = email
            /\ \A j \in 1..(i - 1) : us[j].email # email
    ELSE 0

\* User.findOne({ _id: decoded.id }): the stored token is not compared
findOneByIdOnly(us, id, token) == IF id \in 1..Len(us) THEN id ELSE 0

\* User.findOne({ _id: decoded.id, refreshToken })
findOneByIdAndToken(us, id, token) ==
    IF id \in 1..Len(us) /\ us[id].refreshToken = token THEN id ELSE 0

\* User.findById(id)
findById(us, id) == IF id \in 1..Len(us) THEN id ELSE 0

\* the unique index on email: User.create of a second document with an
\* email that is taken is refused
uniqueEmailViolated(us, email) == findOneByEmail(us, email) # 0

\* ------------------------------------------------------------------ errors
\* globalErrorHandler that answers with res.statusCode as it finds it
globalErrorHandlerKeepsStatus(statusCode, message) ==
    [status |-> statusCode,
     success |-> FALSE,
     message |-> IF message = "" THEN "Internal Server Error" ELSE message]

\* globalErrorHandler: the status the handler set, 500 when it is still 200
globalErrorHandler(statusCode, message) ==
    [status |-> IF statusCode # 200 THEN statusCode ELSE 500,
     success |-> FALSE,
     message |-> IF message = "" THEN "Internal Server Error" ELSE message]

\* ------------------------------------------------------------------ requests
NoUser == [id |-> 0, email |-> Undefined, role |-> Undefined]

NoHeader == <<>>

Idle == [pc |-> "idle", email |-> "", password |-> "", doc |-> NoDoc,
         header |-> NoHeader, user |-> NoUser,
         accessToken |-> NoToken, refreshToken |-> NoToken]

\* one line of history: the request and the response it got; at is the
\* second at which the request's token was verified (0 for the requests that
\* carry none)
Entry(kind, email, password, header, token, res, data) ==
    [kind |-> kind, email |-> email, password |-> password, header |-> header,
     token |-> token, at |-> IF kind \in {"refresh", "me"} THEN now ELSE 0,
     status |-> res.status, success |-> res.success, message |-> res.message,
     accessToken |-> data.accessToken, refreshToken |-> data.refreshToken,
     user |-> data.user, handlerRan |-> data.handlerRan]

NoData == [accessToken |-> NoToken, refreshToken |-> NoToken, user |-> NoUser,
           handlerRan |-> FALSE]

Ok(status, message) == [status |-> status, success |-> TRUE, message |-> message]

Busy == {s \in 1..MaxInFlight : slots[s].pc # "idle"}

Started == Len(history) + Cardinality(Busy)

\* a new request takes the first free slot
FreeSlot(s) ==
    /\ slots[s].pc = "idle"
    /\ \A r \in 1..(s - 1) : slots[r].pc # "idle"

\* began.slot[s] is the number of responses sent before the request in
\* slot s arrived, began.line[i] the same for the request answered by line i
\* of history; filled in only where arrivals are tracked (Track)
InitBegan == began = [slot |-> [s \in 1..MaxInFlight |-> 0], line |-> <<>>]

\* the request at a route that authorize(...roles) is mounted on: req.user,
\* the roles the route permits, how far the request has got, and the
\* response once there is one
RoleIdle == [pc |-> "idle", user |-> NoUser, roles |-> {}, by |-> "",
             res |-> Ok(200, "")]

InitRole == roleReq = RoleIdle

\* a value the request or the document does not carry (0 where an id is
\* expected)
NoView == [id |-> 0, title |-> Undefined, status |-> Undefined]

\* the clients of /api/tasks; each has one request outstanding at most
Clients == {"c1", "c2"}

\* a request to /api/tasks and its response: the handler the request is in
\* (pc), what protect attached, req.params.id and the status of req.query or
\* req.body; once res.json has run (pc = "sent") the handler that answered
\* (by: "protect" when the gate did), the response and its data
NoCall == [pc |-> "idle", header |-> NoHeader, user |-> NoUser, id |-> 0,
           status |-> Undefined, by |-> "", res |-> Ok(200, ""),
           tasks |-> <<>>, task |-> NoView]

\* tasks is the Task collection (a document's _id is its index, a deleted
\* document leaves its _id unused for ever)
InitTasks ==
    /\ tasks = <<>>
    /\ calls = [c \in Clients |-> NoCall]

\* the process after Server.start: running, the server listening (close not
\* called), no exit code, and none of the failures that the two process
\* handlers are registered for
Listening == [state |-> "running", closing |-> FALSE, code |-> 0, failures |-> <<>>]

InitProc == proc = Listening

InitRest == InitBegan /\ InitRole /\ InitTasks /\ InitProc

Init ==
    /\ config = DefaultConfig
    /\ users = <<>>
    /\ now = 0
    /\ slots = [s \in 1..MaxInFlight |-> Idle]
    /\ history = <<>>
    /\ InitRest

\* ------------------------------------------------------------------ register
\* both tokens signed with the one secret config.jwtRefreshSecret
registerTokensOneSecret(id, email, role, t) ==
    [accessToken |-> sign(AccessPayload(id, email, role), config.jwtRefreshSecret,
                          AccessTtl, t),
     refreshToken |-> sign(RefreshPayload(id), config.jwtRefreshSecret, RefreshTtl, t)]

\* the two jwt.sign calls of register
registerTokens(id, email, role, t) ==
    [accessToken |-> sign(AccessPayload(id, email, role), config.jwtSecret, AccessTtl, t),
     refreshToken |-> sign(RefreshPayload(id), config.jwtRefreshSecret, RefreshTtl, t)]

\* User.findOne({ email }); an existing user: res.status(409), throw
register_findOne(s, email, password) ==
    /\ FreeSlot(s)
    /\ IF findOneByEmail(users, email) # 0
       THEN /\ history' = Append(history,
                    Entry("register", email, password, NoHeader, NoToken,
                          globalErrorHandler(409, "User already exists"), NoData))
            /\ UNCHANGED slots
       ELSE /\ slots' = [slots EXCEPT ![s] =
                    [Idle EXCEPT !.pc = "register_create", !.email = email,
                                 !.password = password]]
            /\ UNCHANGED history
    /\ UNCHANGED <<config, users, now>>

\* the new document: the password is stored hashed, role defaults to "user",
\* no refresh token yet
NewUser(email, password) ==
    [email |-> email, password |-> HashPassword(password), role |-> "user",
     refreshToken |-> NoToken]

\* User.create({ name, email, password }): the store refuses a second
\* document with the same email, the error reaches next(error) with the
\* status untouched.  On success both tokens are signed at once.
register_create(s) ==
    /\ slots[s].pc = "register_create"
    /\ IF uniqueEmailViolated(users, slots[s].email)
       THEN /\ history' = Append(history,
                    Entry("register", slots[s].email, slots[s].password, NoHeader, NoToken,
                          globalErrorHandler(200, "E11000 duplicate key error"), NoData))
            /\ slots' = [slots EXCEPT ![s] = Idle]
            /\ UNCHANGED users
       ELSE LET id == Len(users) + 1
                doc == NewUser(slots[s].email, slots[s].password)
                tk == registerTokens(id, doc.email, doc.role, now)
            IN  /\ users' = Append(users, doc)
                /\ slots' = [slots EXCEPT ![s] =
                        [@ EXCEPT !.pc = "register_save",
                                  !.doc = [id |-> id, email |-> doc.email,
                                           password |-> doc.password, role |-> doc.role],
                                  !.accessToken = tk.accessToken,
                                  !.refreshToken = tk.refreshToken]]
                /\ UNCHANGED history
    /\ UNCHANGED <<config, now>>

\* user.refreshToken = refreshToken; await user.save(); res.status(201)
register_save(s) ==
    /\ slots[s].pc = "register_save"
    /\ users' = [users EXCEPT ![slots[s].doc.id].refreshToken = slots[s].refreshToken]
    /\ history' = Append(history,
            Entry("register", slots[s].email, slots[s].password, NoHeader, NoToken,
                  Ok(201, "User registered successfully"),
                  [accessToken |-> slots[s].accessToken,
                   refreshToken |-> slots[s].refreshToken,
                   user |-> [id |-> slots[s].doc.id, email |-> slots[s].doc.email,
                             role |-> slots[s].doc.role],
                   handlerRan |-> TRUE]))
    /\ slots' = [slots EXCEPT ![s] = Idle]
    /\ UNCHANGED <<config, now>>

\* ------------------------------------------------------------------ login
\* throw new Error('Invalid credentials') with the status left at 200
loginStatusNotSet == [status |-> 200, message |-> "Invalid credentials"]

\* res.status(401); throw new Error('Invalid credentials')
loginInvalidCredentials == [status |-> 401, message |-> "Invalid credentials"]

\* the two jwt.sign calls of login
loginTokens(doc, t) ==
    [accessToken |-> sign(AccessPayload(doc.id, doc.email, doc.role),
                          config.jwtSecret, AccessTtl, t),
     refreshToken |-> sign(RefreshPayload(doc.id), config.jwtRefreshSecret, RefreshTtl, t)]

\* User.findOne({ email }); no user: 401
login_findOne(s, email, password) ==
    /\ FreeSlot(s)
    /\ LET id == findOneByEmail(users, email)
       IN  IF id = 0
           THEN /\ history' = Append(history,
                        Entry("login", email, password, NoHeader, NoToken,
                              globalErrorHandler(loginInvalidCredentials.status,
                                                 loginInvalidCredentials.message),
                              NoData))
                /\ UNCHANGED slots
           ELSE /\ slots' = [slots EXCEPT ![s] =
                        [Idle EXCEPT !.pc = "login_compare", !.email = email,
                                     !.password = password, !.doc = DocOf(id)]]
                /\ UNCHANGED history
    /\ UNCHANGED <<config, users, now>>

\* user.comparePassword(password); no match: 401; a match: sign both tokens
login_comparePassword(s) ==
    /\ slots[s].pc = "login_compare"
    /\ IF ~comparePassword(slots[s].doc, slots[s].password)
       THEN /\ history' = Append(history,
                    Entry("login", slots[s].email, slots[s].password, NoHeader, NoToken,
                          globalErrorHandler(loginInvalidCredentials.status,
                                             loginInvalidCredentials.message),
                          NoData))
            /\ slots' = [slots EXCEPT ![s] = Idle]
       ELSE LET tk == loginTokens(slots[s].doc, now)
            IN  /\ slots' = [slots EXCEPT ![s] =
                        [@ EXCEPT !.pc = "login_update",
                                  !.accessToken = tk.accessToken,
                                  !.refreshToken = tk.refreshToken]]
                /\ UNCHANGED history
    /\ UNCHANGED <<config, users, now>>

\* User.findByIdAndUpdate(user._id, { refreshToken }); res.status(200)
login_findByIdAndUpdate(s) ==
    /\ slots[s].pc = "login_update"
    /\ users' = [users EXCEPT ![slots[s].doc.id].refreshToken = slots[s].refreshToken]
    /\ history' = Append(history,
            Entry("login", slots[s].email, slots[s].password, NoHeader, NoToken,
                  Ok(200, "User logged in successfully"),
                  [accessToken |-> slots[s].accessToken,
                   refreshToken |-> slots[s].refreshToken,
                   user |-> [id |-> slots[s].doc.id, email |-> slots[s].doc.email,
                             role |-> slots[s].doc.role],
                   handlerRan |-> TRUE]))
    /\ slots' = [slots EXCEPT ![s] = Idle]
    /\ UNCHANGED <<config, now>>

\* ------------------------------------------------------------------ clients
\* what a client can present: a token some response has returned, or a
\* string that is no JWT at all
IssuedRefresh == {history[i].refreshToken : i \in 1..Len(history)} \ {NoToken}

IssuedAccess == {history[i].accessToken : i \in 1..Len(history)} \ {NoToken}

Issued == IssuedAccess \cup IssuedRefresh

Presentable == Issued \cup {Garbage}

\* An Authorization header is the list of its fields between single spaces
\* (header.split(' ')); <<>> is a request without the header.
Headers ==
    {NoHeader, <<"Bearer">>, <<"Bearer", EmptyToken>>}
        \cup {<<"Basic", t>> : t \in IssuedAccess}
        \cup {<<"Bearer", t>> : t \in Presentable}

\* header.startsWith('Bearer')
startsWithBearer(header) == Len(header) >= 1 /\ header[1] = "Bearer"

\* ------------------------------------------------------------------ protect
\* let token; if (authorization && authorization.startsWith('Bearer'))
\*   token = authorization.split(' ')[1]
extractToken(header) ==
    IF startsWithBearer(header) /\ Len(header) >= 2 THEN header[2] ELSE NoToken

\* the identity kept in a variable of the module: a request that passes the
\* gate while another is in its handler carries that other identity
decodedUserShared(token) ==
    LET inHandler == {s \in 1..MaxInFlight : slots[s].pc = "getMe"}
    IN  IF inHandler # {}
        THEN slots[CHOOSE s \in inHandler : TRUE].user
        ELSE [id |-> token.id, email |-> token.email, role |-> token.role]

\* req.user = { id: decoded.id, email: decoded.email, role: decoded.role }
decodedUser(token) == [id |-> token.id, email |-> token.email, role |-> token.role]

\* protect that looks the session up: the token passes only while the account
\* stores a refresh token signed in the same second
protectTryStoredSession(header, t) ==
    LET token == extractToken(header)
    IN  IF ~Truthy(token)
        THEN [threw |-> TRUE, message |-> "Not authorized, no token provided",
              user |-> NoUser]
        ELSE IF \/ ~verify(token, config.jwtSecret, t)
                \/ findById(users, token.id) = 0
                \/ users[token.id].refreshToken.iat # token.iat
        THEN [threw |-> TRUE, message |-> "jwt verification failed", user |-> NoUser]
        ELSE [threw |-> FALSE, message |-> "", user |-> decodedUser(token)]

\* the try block of protect: what it throws, or the identity it attaches
protectTry(header, t) ==
    LET token == extractToken(header)
    IN  IF ~Truthy(token)
        THEN [threw |-> TRUE, message |-> "Not authorized, no token provided",
              user |-> NoUser]
        ELSE IF ~verify(token, config.jwtSecret, t)
        THEN [threw |-> TRUE, message |-> "jwt verification failed", user |-> NoUser]
        ELSE [threw |-> FALSE, message |-> "", user |-> decodedUser(token)]

\* the catch block of protect: whatever was thrown, res.status(401) and
\* next(new Error('Not authorized, token failed'))
protectCatch(thrown) == [status |-> 401, message |-> "Not authorized, token failed"]

\* protect, then the synchronous start of getMe (which awaits User.findById)
protect(s, header) ==
    /\ FreeSlot(s)
    /\ LET r == protectTry(header, now)
       IN  IF r.threw
           THEN LET e == protectCatch(r.message)
                IN  /\ history' = Append(history,
                            Entry("me", "", "", header, NoToken,
                                  globalErrorHandler(e.status, e.message), NoData))
                    /\ UNCHANGED slots
           ELSE /\ slots' = [slots EXCEPT ![s] =
                        [Idle EXCEPT !.pc = "getMe", !.header = header, !.user = r.user]]
                /\ UNCHANGED history
    /\ UNCHANGED <<config, users, now>>

\* ------------------------------------------------------------------ getMe
\* User.findById(req.user.id); no user: 404
getMe(s) ==
    /\ slots[s].pc = "getMe"
    /\ LET id == findById(users, slots[s].user.id)
       IN  history' = Append(history,
                IF id = 0
                THEN Entry("me", "", "", slots[s].header, NoToken,
                           globalErrorHandler(404, "User not found"),
                           [NoData EXCEPT !.user = slots[s].user, !.handlerRan = TRUE])
                ELSE Entry("me", "", "", slots[s].header, NoToken,
                           Ok(200, "User profile retrieved successfully"),
                           [NoData EXCEPT !.user = slots[s].user, !.handlerRan = TRUE]))
    /\ slots' = [slots EXCEPT ![s] = Idle]
    /\ UNCHANGED <<config, users, now>>

\* ------------------------------------------------------------------ refresh
\* the inner try block of refreshToken: verify, find the user that holds
\* this very token, sign a new access token
refreshTry(token, t) ==
    IF ~verify(token, config.jwtRefreshSecret, t)
    THEN [threw |-> TRUE, status |-> 200, message |-> "jwt verification failed",
          accessToken |-> NoToken, user |-> NoUser]
    ELSE LET id == findOneByIdAndToken(users, token.id, token)
         IN  IF id = 0
             THEN [threw |-> TRUE, status |-> 404,
                   message |-> "User not found or refresh token is invalid",
                   accessToken |-> NoToken, user |-> NoUser]
             ELSE [threw |-> FALSE, status |-> 200,
                   message |-> "Token refreshed successfully",
                   accessToken |-> sign(AccessPayload(id, users[id].email, users[id].role),
                                        config.jwtSecret, AccessTtl, t),
                   user |-> [id |-> id, email |-> users[id].email,
                             role |-> users[id].role]]

\* the inner catch block: whatever was thrown inside, res.status(401) and
\* throw new Error('Invalid refresh token')
refreshCatch(thrown) == [status |-> 401, message |-> "Invalid refresh token"]

\* POST /api/auth/refresh
refreshToken(s, token) ==
    /\ FreeSlot(s)
    /\ history' = Append(history,
            IF ~Truthy(token)
            THEN Entry("refresh", "", "", NoHeader, token,
                       globalErrorHandler(401, "Refresh token is required"), NoData)
            ELSE LET r == refreshTry(token, now)
                 IN  IF r.threw
                     THEN LET e == refreshCatch(r)
                          IN  Entry("refresh", "", "", NoHeader, token,
                                    globalErrorHandler(e.status, e.message), NoData)
                     ELSE Entry("refresh", "", "", NoHeader, token,
                                Ok(r.status, r.message),
                                [NoData EXCEPT !.accessToken = r.accessToken,
                                               !.user = r.user, !.handlerRan = TRUE]))
    /\ UNCHANGED <<config, users, now, slots>>

\* ------------------------------------------------------------------ clock
Tick ==
    /\ now < MaxTime
    /\ now' = now + 1
    /\ UNCHANGED <<config, users, slots, history, rest>>

\* ------------------------------------------------------------------ system
Slots == 1..MaxInFlight

\* requests arrive while the bound on served requests allows
Accepting == Started < MaxRequests

Register ==
    /\ Accepting
    /\ \E s \in Slots, e \in Emails, p \in RegisterPasswords : register_findOne(s, e, p)
    /\ UNCHANGED rest

RegisterCreate ==
    /\ \E s \in Slots : register_create(s)
    /\ UNCHANGED rest

RegisterSave ==
    /\ \E s \in Slots : register_save(s)
    /\ UNCHANGED rest

Login ==
    /\ Accepting
    /\ \E s \in Slots, e \in Emails, p \in Passwords : login_findOne(s, e, p)
    /\ UNCHANGED rest

LoginCompare ==
    /\ \E s \in Slots : login_comparePassword(s)
    /\ UNCHANGED rest

LoginUpdate ==
    /\ \E s \in Slots : login_findByIdAndUpdate(s)
    /\ UNCHANGED rest

Refresh ==
    /\ Accepting
    /\ \E s \in Slots, t \in Presentable \cup {NoToken} : refreshToken(s, t)
    /\ UNCHANGED rest

Protect ==
    /\ Accepting
    /\ \E s \in Slots, h \in Headers : protect(s, h)
    /\ UNCHANGED rest

GetMe ==
    /\ \E s \in Slots : getMe(s)
    /\ UNCHANGED rest

Next ==
    \/ Register
    \/ RegisterCreate
    \/ RegisterSave
    \/ Login
    \/ LoginCompare
    \/ LoginUpdate
    \/ Refresh
    \/ Protect
    \/ GetMe
    \/ Tick

Spec == Init /\ [][Next]_vars

\* ------------------------------------------------------------------ clients that hold valid credentials
\* The same handlers, driven only by clients that present what the server
\* gave them: the registered password, a refresh token a response returned
\* to POST /refresh, an access token a response returned to GET /me.  Fewer
\* inputs per request leave room for one more request per behaviour.
MaxValidRequests == 4

AcceptingValid == Started < MaxValidRequests

ValidRegister ==
    /\ AcceptingValid
    /\ \E s \in Slots, e \in Emails, p \in RegisterPasswords : register_findOne(s, e, p)
    /\ UNCHANGED rest

ValidLogin ==
    /\ AcceptingValid
    /\ \E s \in Slots, e \in Emails, p \in RegisterPasswords : login_findOne(s, e, p)
    /\ UNCHANGED rest

ValidRefresh ==
    /\ AcceptingValid
    /\ \E s \in Slots, t \in IssuedRefresh : refreshToken(s, t)
    /\ UNCHANGED rest

ValidProtect ==
    /\ AcceptingValid
    /\ \E s \in Slots, t \in IssuedAccess : protect(s, <<"Bearer", t>>)
    /\ UNCHANGED rest

NextValid ==
    \/ ValidRegister
    \/ RegisterCreate
    \/ RegisterSave
    \/ ValidLogin
    \/ LoginCompare
    \/ LoginUpdate
    \/ ValidRefresh
    \/ ValidProtect
    \/ GetMe
    \/ Tick

SpecValid == Init /\ [][NextValid]_vars

\* ------------------------------------------------------------------ the gate alone
\* registrations and GET /api/auth/me with the access tokens they returned
NextGate ==
    \/ ValidRegister
    \/ RegisterCreate
    \/ RegisterSave
    \/ ValidProtect
    \/ GetMe
    \/ Tick

SpecGate == Init /\ [][NextGate]_vars

\* ================================================================== claims
\* the step has answered a request: the response is the last line of history'
Answered == Len(history') = Len(history) + 1

Response == history'[Len(history')]

Lines == 1..Len(history)

\* the token is a JWT signed with secret and not expired at second t
GoodAt(token, secret, t) == token.str = "jwt" /\ token.secret = secret /\ t < token.exp

Claims(token) == [id |-> token.id, email |-> token.email, role |-> token.role]

Account(i) == [id |-> i, email |-> users[i].email, role |-> users[i].role]

\* ------------------------------------------------------------------ C1
SuccessfulLogin(i) == history[i].kind = "login" /\ history[i].status = 200

\* lines i and j are two successive successful logins of one account
Successive(i, j) ==
    /\ i < j
    /\ SuccessfulLogin(i)
    /\ SuccessfulLogin(j)
    /\ history[i].user.id = history[j].user.id
    /\ \A m \in Lines : (i < m /\ m < j /\ SuccessfulLogin(m))
                            => history[m].user.id # history[i].user.id

\* between lines j and k nothing wrote the account's stored refresh token
NoWriteBetween(j, k) ==
    \A m \in Lines :
        (j < m /\ m < k /\ history[m].status \in {200, 201}
               /\ history[m].kind \in {"login", "register"})
            => history[m].user.id # history[j].user.id

\* C1: after two successive successful logins L1 then L2 of an account, every
\* later refresh that presents L1's unexpired refresh token is rejected, and a
\* refresh that presents L2's unexpired refresh token (still the last one
\* written) is answered 200.
C1_TokenRotation ==
    \A i \in Lines, j \in Lines, k \in Lines :
        (Successive(i, j) /\ j < k /\ history[k].kind = "refresh")
            => /\ (/\ history[k].token = history[i].refreshToken
                   /\ history[k].at < history[k].token.exp)
                      => history[k].status # 200
               /\ (/\ history[k].token = history[j].refreshToken
                   /\ history[k].at < history[k].token.exp
                   /\ NoWriteBetween(j, k))
                      => history[k].status = 200

\* ------------------------------------------------------------------ C2
\* C2: a refresh is answered 200 with an access token only if the presented
\* token is signed with the refresh secret, unexpired, and is the very value
\* stored on the account its id names; the access token issued carries that
\* account's id, email and role.
C2_RefreshOnlyWithStoredToken ==
    [][(Answered /\ Response.kind = "refresh" /\ Response.status = 200)
        => LET t == Response.token
           IN  /\ GoodAt(t, config.jwtRefreshSecret, now)
               /\ t.id \in 1..Len(users)
               /\ users[t.id].refreshToken = t
               /\ Response.accessToken.str = "jwt"
               /\ Response.accessToken.secret = config.jwtSecret
               /\ Claims(Response.accessToken) = Account(t.id)]_vars

C2_Witness ==
    \E i \in Lines : history[i].kind = "refresh" /\ history[i].status = 200

\* ------------------------------------------------------------------ C3
\* C3: a refresh whose token is present and verifies, but which no account
\* holds under the token's id, is answered 404 (not the 401 of a missing or
\* unverifiable token).
C3_RefreshNotFoundIs404 ==
    [][(/\ Answered
        /\ Response.kind = "refresh"
        /\ GoodAt(Response.token, config.jwtRefreshSecret, now)
        /\ ~(/\ Response.token.id \in 1..Len(users)
             /\ users[Response.token.id].refreshToken = Response.token))
        => Response.status = 404]_vars

\* ------------------------------------------------------------------ C4
\* the header carries no bearer token: no header, no Bearer prefix, or the
\* prefix with nothing after it
NoTokenHeader(h) ==
    \/ Len(h) = 0
    \/ h[1] # "Bearer"
    \/ Len(h) < 2
    \/ h[2].str \in {"absent", "empty"}

\* C4: a request to a protected path without a bearer token is rejected with
\* 401 and the reason "no token provided", and the handler does not run.
C4_NoTokenReason ==
    \A i \in Lines :
        (history[i].kind = "me" /\ NoTokenHeader(history[i].header))
            => /\ history[i].status = 401
               /\ history[i].message = "Not authorized, no token provided"
               /\ ~history[i].handlerRan

\* ------------------------------------------------------------------ C5
\* the header carries a bearer token the gate must refuse at second t:
\* malformed, signed with another secret, or expired
BadBearer(h, t) ==
    /\ ~NoTokenHeader(h)
    /\ \/ h[2].str # "jwt"
       \/ h[2].secret # config.jwtSecret
       \/ h[2].exp <= t

\* C5: every bearer token that is malformed, signed with another secret or
\* expired when the request reaches the gate gets the one answer 401 "token
\* failed", with no identity attached and without the handler being entered
\* (a request is answered by the gate itself exactly when no slot changes).
C5_InvalidTokenRejected ==
    [][/\ \A s \in Slots :
            (slots[s].pc = "idle" /\ slots'[s].pc = "getMe")
                => ~BadBearer(slots'[s].header, now)
       /\ (/\ Answered
           /\ Response.kind = "me"
           /\ slots' = slots
           /\ BadBearer(Response.header, now))
            => /\ Response.status = 401
               /\ Response.message = "Not authorized, token failed"
               /\ ~Response.success
               /\ ~Response.handlerRan
               /\ Response.user = NoUser]_vars

\* an expired token with a good signature and a token signed with another
\* secret have both been refused
C5_Witness ==
    \E i \in Lines, j \in Lines :
        /\ history[i].kind = "me" /\ history[j].kind = "me"
        /\ BadBearer(history[i].header, history[i].at)
        /\ history[i].header[2].str = "jwt"
        /\ history[i].header[2].secret = config.jwtSecret
        /\ BadBearer(history[j].header, history[j].at)
        /\ history[j].header[2].str = "jwt"
        /\ history[j].header[2].secret # config.jwtSecret
        /\ history[i].status = 401 /\ history[j].status = 401

\* ------------------------------------------------------------------ C6
\* C6: the identity a request carries into its handler is the claims of the
\* token in that same request's header, whatever other requests are in
\* flight.
C6_IdentityIsOwnToken ==
    /\ \A s \in Slots :
          slots[s].pc = "getMe"
            => /\ ~NoTokenHeader(slots[s].header)
               /\ slots[s].user = Claims(slots[s].header[2])
    /\ \A i \in Lines :
          (history[i].kind = "me" /\ history[i].handlerRan)
            => /\ ~NoTokenHeader(history[i].header)
               /\ history[i].user = Claims(history[i].header[2])

\* two requests of different accounts are in their handlers at once
C6_Witness ==
    \E s \in Slots, r \in Slots :
        /\ slots[s].pc = "getMe" /\ slots[r].pc = "getMe"
        /\ slots[s].user.id # slots[r].user.id
        /\ slots[s].user.id > 0 /\ slots[r].user.id > 0

\* ------------------------------------------------------------------ C7
EmailTaken(e) == \E i \in 1..Len(users) : users[i].email = e

\* C7: a register request whose email already belongs to an account when it
\* attempts the creation is answered 409 and creates no second account.
C7_DuplicateIsConflict ==
    [][\A s \in Slots :
          (/\ slots[s].pc = "register_create"
           /\ slots'[s].pc # "register_create"
           /\ EmailTaken(slots[s].email))
            => /\ Answered
               /\ Response.status = 409
               /\ users' = users]_vars

\* ------------------------------------------------------------------ C8
\* the gate lets the token through, as this identity, at second t
GateAccepts(token, t, identity) ==
    LET r == protectTry(<<"Bearer", token>>, t)
    IN  ~r.threw /\ r.user = identity

\* C8: a register request whose email is free when it creates the account is
\* answered 201 with an access token that the gate accepts throughout its
\* lifetime as the id, email and role of the account just created, and with
\* the refresh token stored on that account when the request completes.
C8_RegisterIssuesTokens ==
    [][\A s \in Slots :
          /\ (/\ slots[s].pc = "register_create"
              /\ slots'[s].pc # "register_create"
              /\ ~EmailTaken(slots[s].email))
                => /\ slots'[s].pc = "register_save"
                   /\ Len(users') = Len(users) + 1
                   /\ users'[Len(users')].email = slots[s].email
                   /\ slots'[s].doc.id = Len(users')
          /\ (slots[s].pc = "register_save" /\ slots'[s].pc # "register_save")
                => /\ Answered
                   /\ Response.kind = "register"
                   /\ Response.status = 201
                   /\ Response.email = slots[s].email
                   /\ LET id == slots[s].doc.id
                          a == Response.accessToken
                      IN  /\ users'[id].email = Response.email
                          /\ a.iat < a.exp
                          /\ \A t \in a.iat..(a.exp - 1) :
                                GateAccepts(a, t, [id |-> id, email |-> users'[id].email,
                                                   role |-> users'[id].role])
                          /\ Truthy(Response.refreshToken)
                          /\ Response.refreshToken = users'[id].refreshToken]_vars

C8_Witness ==
    \E i \in Lines :
        /\ history[i].kind = "register"
        /\ history[i].status = 201
        /\ history[i].user.id \in 1..Len(users)
        /\ users[history[i].user.id].refreshToken = history[i].refreshToken

\* ------------------------------------------------------------------ C9
\* the account that email and password open, 0 if there is none
Opens(email, password) ==
    IF \E i \in 1..Len(users) :
            users[i].email = email /\ users[i].password = HashPassword(password)
    THEN CHOOSE i \in 1..Len(users) :
            users[i].email = email /\ users[i].password = HashPassword(password)
    ELSE 0

\* C9: a login with a registered email and its password is answered 200 with
\* both tokens; a login with an unknown email or a wrong password is answered
\* 401 with no token and leaves every stored refresh token as it was.
C9_LoginOutcome ==
    [][(Answered /\ Response.kind = "login")
        => LET id == Opens(Response.email, Response.password)
           IN  IF id # 0
               THEN /\ Response.status = 200
                    /\ Response.success
                    /\ Truthy(Response.accessToken)
                    /\ Truthy(Response.refreshToken)
                    /\ Response.user.id = id
               ELSE /\ Response.status = 401
                    /\ ~Response.success
                    /\ Response.accessToken = NoToken
                    /\ Response.refreshToken = NoToken
                    /\ users' = users]_vars

\* a wrong password for a registered account was refused, and the right one
\* for the same account was accepted
C9_Witness ==
    \E i \in Lines, j \in Lines, u \in 1..Len(users) :
        /\ history[i].kind = "login" /\ history[i].status = 401
        /\ history[i].email = users[u].email
        /\ history[i].password # history[j].password
        /\ history[j].kind = "login" /\ history[j].status = 200
        /\ history[j].email = users[u].email

\* ------------------------------------------------------------------ C10
\* C10: no refresh request writes the store, and a refresh that presents an
\* unexpired token equal to the value stored on its account is answered 200
\* with an access token for that account, every time.
C10_RefreshReadOnly ==
    [][(Answered /\ Response.kind = "refresh")
        => /\ users' = users
           /\ LET t == Response.token
              IN  (/\ GoodAt(t, config.jwtRefreshSecret, now)
                   /\ t.id \in 1..Len(users)
                   /\ users[t.id].refreshToken = t)
                    => /\ Response.status = 200
                       /\ Response.accessToken.str = "jwt"
                       /\ Response.accessToken.secret = config.jwtSecret
                       /\ Claims(Response.accessToken) = Account(t.id)]_vars

\* the same refresh token was accepted twice, and is still the stored one
C10_Witness ==
    \E i \in Lines, j \in Lines :
        /\ i < j
        /\ history[i].kind = "refresh" /\ history[j].kind = "refresh"
        /\ history[i].status = 200 /\ history[j].status = 200
        /\ history[i].token = history[j].token
        /\ users[history[j].token.id].refreshToken = history[j].token

\* ================================================================== configurations
\* values the environment can give JWT_SECRET and JWT_REFRESH_SECRET; unset,
\* each falls back to its own default
Secrets == {"your-secret-key", "your-refresh-secret-key"}

\* config reads each secret from its own variable and compares them nowhere
Configs == [jwtSecret : Secrets, jwtRefreshSecret : Secrets]

InitConfigs ==
    /\ config \in Configs
    /\ users = <<>>
    /\ now = 0
    /\ slots = [s \in 1..MaxInFlight |-> Idle]
    /\ history = <<>>
    /\ InitRest

\* the server started with any configuration, driven by every client
SpecConfigs == InitConfigs /\ [][Next]_vars

\* C11: secret separation, for every configuration the server can be
\* started with: the Gate never accepts a refresh token that register or
\* login has issued (no request that presents one reaches the handler), and
\* refresh never answers 200 to an access token that register, login or
\* refresh has issued.
C11_SecretSeparation ==
    /\ \A s \in Slots :
            slots[s].pc = "getMe" => extractToken(slots[s].header) \notin IssuedRefresh
    /\ \A i \in Lines :
            /\ history[i].kind = "me" /\ history[i].handlerRan
                    => extractToken(history[i].header) \notin IssuedRefresh
            /\ history[i].kind = "refresh" /\ history[i].status = 200
                    => history[i].token \notin IssuedAccess

\* ================================================================== requests that overlap
\* keeps began as the handlers run: a request that takes a slot is stamped
\* with the number of responses sent so far, and the line that answers a
\* request carries the stamp of that request
Track ==
    began' =
        [slot |-> [s \in Slots |->
                    IF slots'[s].pc = "idle" THEN 0
                    ELSE IF slots[s].pc = "idle" THEN Len(history)
                    ELSE began.slot[s]],
         line |-> IF Len(history') = Len(history)
                  THEN began.line
                  ELSE LET done == {s \in Slots : slots[s].pc # "idle"
                                                    /\ slots'[s].pc = "idle"}
                       IN  Append(began.line,
                                  IF done = {} THEN Len(history)
                                  ELSE began.slot[CHOOSE s \in done : TRUE])]

TrackedRegister ==
    /\ AcceptingValid
    /\ \E s \in Slots, e \in Emails, p \in RegisterPasswords : register_findOne(s, e, p)
    /\ Track
    /\ UNCHANGED untracked

TrackedRegisterCreate ==
    /\ \E s \in Slots : register_create(s)
    /\ Track
    /\ UNCHANGED untracked

TrackedRegisterSave ==
    /\ \E s \in Slots : register_save(s)
    /\ Track
    /\ UNCHANGED untracked

TrackedLogin ==
    /\ AcceptingValid
    /\ \E s \in Slots, e \in Emails, p \in RegisterPasswords : login_findOne(s, e, p)
    /\ Track
    /\ UNCHANGED untracked

TrackedLoginCompare ==
    /\ \E s \in Slots : login_comparePassword(s)
    /\ Track
    /\ UNCHANGED untracked

TrackedLoginUpdate ==
    /\ \E s \in Slots : login_findByIdAndUpdate(s)
    /\ Track
    /\ UNCHANGED untracked

TrackedRefresh ==
    /\ AcceptingValid
    /\ \E s \in Slots, t \in IssuedRefresh : refreshToken(s, t)
    /\ Track
    /\ UNCHANGED untracked

TrackedTick ==
    /\ now < MaxTime
    /\ now' = now + 1
    /\ UNCHANGED <<config, users, slots, history, began, untracked>>

NextTracked ==
    \/ TrackedRegister
    \/ TrackedRegisterCreate
    \/ TrackedRegisterSave
    \/ TrackedLogin
    \/ TrackedLoginCompare
    \/ TrackedLoginUpdate
    \/ TrackedRefresh
    \/ TrackedTick

\* register, login and refresh by clients that hold valid credentials, with
\* the arrival of every request recorded
SpecTracked == Init /\ [][NextTracked]_vars

\* the requests answered by lines i and j were in flight at the same time:
\* the later answered one had arrived before the earlier one was answered
Overlap(i, j) == i < j /\ began.line[j] < i

\* the request answered by line i arrived after email was registered
ArrivedRegistered(i) ==
    \E r \in Lines :
        /\ history[r].kind = "register"
        /\ history[r].status = 201
        /\ history[r].email = history[i].email
        /\ history[r].password = history[i].password
        /\ r <= began.line[i]

\* C12: two logins of one registered account with the correct password that
\* run concurrently are both answered 200; once both are answered the stored
\* refresh token is the one returned by the login that wrote last (the one
\* answered last), and while nothing else writes it, a refresh presenting
\* that token unexpired is answered 200 and a refresh presenting the token
\* the other login returned is rejected.
C12_ConcurrentLogins ==
    \A i \in Lines, j \in Lines :
        (/\ Overlap(i, j)
         /\ history[i].kind = "login"
         /\ history[j].kind = "login"
         /\ history[i].email = history[j].email
         /\ ArrivedRegistered(i)
         /\ ArrivedRegistered(j))
            => /\ history[i].status = 200
               /\ history[j].status = 200
               /\ NoWriteBetween(j, Len(history) + 1)
                    => users[history[j].user.id].refreshToken = history[j].refreshToken
               /\ \A k \in Lines :
                    (/\ j < k
                     /\ history[k].kind = "refresh"
                     /\ history[k].at < history[k].token.exp
                     /\ NoWriteBetween(j, k))
                        => /\ history[k].token = history[j].refreshToken
                                => history[k].status = 200
                           /\ history[k].token = history[i].refreshToken
                                => history[k].status # 200

\* ================================================================== authorize
\* role strings an account or a route can carry
RoleNames == {"user", "admin", "moderator"}

\* `User role ${req.user.role} is not authorized to access this route`
forbiddenMessage(role) ==
    CASE role = "user" -> "User role user is not authorized to access this route"
      [] role = "admin" -> "User role admin is not authorized to access this route"
      [] role = "moderator" -> "User role moderator is not authorized to access this route"
      [] OTHER -> "User role undefined is not authorized to access this route"

\* authorize that answers a role outside the permitted set like a request
\* without identity
authorizeUnauthorized(roles, user) ==
    IF user = NoUser \/ user.role \notin roles
    THEN [threw |-> TRUE, status |-> 401,
          message |-> "Not authorized, no token provided"]
    ELSE [threw |-> FALSE, status |-> 200, message |-> ""]

\* authorize(...roles)(req, res, next): sets the status and throws, or
\* calls next()
authorize(roles, user) ==
    IF user = NoUser
    THEN [threw |-> TRUE, status |-> 401,
          message |-> "Not authorized, no token provided"]
    ELSE IF user.role \notin roles
    THEN [threw |-> TRUE, status |-> 403, message |-> forbiddenMessage(user.role)]
    ELSE [threw |-> FALSE, status |-> 200, message |-> ""]

\* access tokens of accounts of every role, as register, login and refresh
\* sign them
RoleTokens ==
    {sign(AccessPayload(a[1], a[2], r), config.jwtSecret, AccessTtl, 0) :
        a \in {<<1, "a@x.com">>, <<2, "b@x.com">>}, r \in RoleNames}

RoleHeaders == {NoHeader, <<"Bearer", Garbage>>} \cup {<<"Bearer", t>> : t \in RoleTokens}

roleFrame == <<config, users, now, slots, history, began, tasks, calls, proc>>

\* a request to a route mounted as (protect, authorize(...roles), handler)
\* passes protect, which answers it or attaches req.user
authorize_afterProtect(header, roles) ==
    /\ roleReq.pc = "idle"
    /\ LET r == protectTry(header, now)
       IN  IF r.threw
           THEN LET e == protectCatch(r.message)
                IN  roleReq' = [RoleIdle EXCEPT !.pc = "answered", !.roles = roles,
                                    !.by = "protect",
                                    !.res = globalErrorHandler(e.status, e.message)]
           ELSE roleReq' = [RoleIdle EXCEPT !.pc = "authorize", !.roles = roles,
                                             !.user = r.user]
    /\ UNCHANGED roleFrame

\* a request to a route mounted as (authorize(...roles), handler): nothing
\* has set req.user
authorize_alone(roles) ==
    /\ roleReq.pc = "idle"
    /\ roleReq' = [RoleIdle EXCEPT !.pc = "authorize", !.roles = roles]
    /\ UNCHANGED roleFrame

\* the middleware runs; what it throws reaches globalErrorHandler with the
\* status it has set
authorize_run ==
    /\ roleReq.pc = "authorize"
    /\ LET r == authorize(roleReq.roles, roleReq.user)
       IN  roleReq' = IF r.threw
                      THEN [roleReq EXCEPT !.pc = "answered", !.by = "authorize",
                                !.res = globalErrorHandler(r.status, r.message)]
                      ELSE [roleReq EXCEPT !.pc = "handler"]
    /\ UNCHANGED roleFrame

\* the route's handler answers
authorize_handler ==
    /\ roleReq.pc = "handler"
    /\ roleReq' = [roleReq EXCEPT !.pc = "answered", !.by = "handler",
                                  !.res = Ok(200, "")]
    /\ UNCHANGED roleFrame

\* the response is sent, the next request can come
authorize_end ==
    /\ roleReq.pc = "answered"
    /\ roleReq' = RoleIdle
    /\ UNCHANGED roleFrame

AuthorizeAfterProtect ==
    \E h \in RoleHeaders, roles \in SUBSET RoleNames : authorize_afterProtect(h, roles)

AuthorizeAlone == \E roles \in SUBSET RoleNames : authorize_alone(roles)

NextRole ==
    \/ AuthorizeAfterProtect
    \/ AuthorizeAlone
    \/ authorize_run
    \/ authorize_handler
    \/ authorize_end

SpecRole == Init /\ [][NextRole]_vars

\* C13: at the role gate an identity whose role is not in the permitted set
\* is answered 403 and the handler is not invoked; an identity whose role is
\* in the set proceeds to the handler; the gate answers 401 only when no
\* identity was resolved.
C13_RoleGate ==
    [][roleReq.pc = "authorize"
        => /\ (roleReq.user # NoUser /\ roleReq.user.role \notin roleReq.roles)
                => /\ roleReq'.pc = "answered"
                   /\ roleReq'.res.status = 403
                   /\ ~roleReq'.res.success
           /\ (roleReq.user # NoUser /\ roleReq.user.role \in roleReq.roles)
                => roleReq'.pc = "handler"
           /\ (roleReq'.pc = "answered" /\ roleReq'.res.status = 401)
                => roleReq.user = NoUser
           /\ roleReq.user = NoUser
                => roleReq'.pc = "answered" /\ roleReq'.res.status = 401]_vars

\* an identity with role "user" has been refused by a route restricted to
\* "admin"
C13_Witness ==
    /\ roleReq.pc = "answered"
    /\ roleReq.by = "authorize"
    /\ roleReq.user.role = "user"
    /\ roleReq.roles = {"admin"}
    /\ roleReq.res.status = 403

\* ================================================================== routes
\* authRoutes: the middleware a request to /api/auth runs through, in order
authRoutes(method, path) ==
    CASE method = "POST" /\ path = "/register" -> <<"register">>
      [] method = "POST" /\ path = "/login" -> <<"login">>
      [] method = "POST" /\ path = "/refresh" -> <<"refreshToken">>
      [] method = "GET" /\ path = "/me" -> <<"protect", "getMe">>
      [] OTHER -> <<"notFoundHandler">>

\* the handler router.route(...) mounts for a method and path
taskHandler(method, path) ==
    CASE method = "GET" /\ path = "/" -> "getTasks"
      [] method = "POST" /\ path = "/" -> "createTask"
      [] method = "GET" /\ path = "/:id" -> "getTaskById"
      [] method = "PUT" /\ path = "/:id" -> "updateTask"
      [] method = "DELETE" /\ path = "/:id" -> "deleteTask"
      [] OTHER -> "notFoundHandler"

\* taskRoutes with the handlers mounted and router.use(protect) left out
taskRoutesUnprotected(method, path) == <<taskHandler(method, path)>>

\* taskRoutes: router.use(protect) comes before every route of the router
taskRoutes(method, path) == <<"protect", taskHandler(method, path)>>

\* app.use('/api/auth', authRoutes); app.use('/api/tasks', taskRoutes)
pipeline(mount, method, path) ==
    IF mount = "/api/auth" THEN authRoutes(method, path) ELSE taskRoutes(method, path)

\* ================================================================== tasks
MaxTasks == 2           \* documents the Task collection ever holds

TaskStatuses == {"pending", "in-progress", "completed"}

\* req.query.status of GET /api/tasks
QueryStatuses == {Undefined, "completed"}

\* req.body of POST /api/tasks ({ title }) and of PUT /api/tasks/:id ({ status })
TaskTitle == "buy milk"

UpdateStatus == "completed"

\* req.params.id
TaskIds == 1..MaxTasks

\* what is left at the _id of a deleted document: nothing
Gone == [userId |-> 0, title |-> Undefined, status |-> Undefined, deleted |-> TRUE]

Live(ts) == {i \in 1..Len(ts) : ~ts[i].deleted}

\* the fields of a document that a response carries
view(ts, i) == [id |-> i, title |-> ts[i].title, status |-> ts[i].status]

\* if (status && [...].includes(status)) filter.status = status
statusFilter(status) ==
    IF status # Undefined /\ status \in TaskStatuses THEN status ELSE Undefined

\* Task.find(filter).sort({ createdAt: -1 }): the _ids, newest first
find(ts, userId, status) ==
    LET ids == {i \in Live(ts) : /\ ts[i].userId = userId
                                 /\ (status = Undefined \/ ts[i].status = status)}
    IN  [k \in 1..Cardinality(ids) |->
            CHOOSE i \in ids : Cardinality({j \in ids : j > i}) = k - 1]

\* Task.findOne({ _id }) without the owner
findOneTaskById(ts, id, userId) == IF id \in Live(ts) THEN id ELSE 0

\* Task.findOne({ _id: req.params.id, userId: req.user?.id }): 0 is null
findOneTask(ts, id, userId) ==
    IF id \in Live(ts) /\ ts[id].userId = userId THEN id ELSE 0

taskFrame == <<config, users, now, slots, history, began, roleReq, proc>>

\* the client has no request outstanding
FreeCall(s) == calls[s].pc = "idle"

\* res.status(...).json(response) in handler by: the response leaves, of
\* the request remain req.user and req.params.id
Sent(call, by, res, list, task) ==
    [NoCall EXCEPT !.pc = "sent", !.user = call.user, !.id = call.id, !.by = by,
                   !.res = res, !.tasks = list, !.task = task]

\* a request to /api/tasks runs through the middleware mounted before its
\* handler: protect answers it, or attaches req.user and the handler starts
\* (every handler awaits the store first)
task_arrive(s, method, path, header, id, status) ==
    /\ FreeCall(s)
    /\ LET chain == pipeline("/api/tasks", method, path)
           gate == IF chain[1] = "protect"
                   THEN protectTry(header, now)
                   ELSE [threw |-> FALSE, message |-> "", user |-> NoUser]
           call == [NoCall EXCEPT !.header = header, !.id = id, !.status = status]
       IN  calls' = [calls EXCEPT ![s] =
                IF gate.threw
                THEN LET e == protectCatch(gate.message)
                     IN  Sent(call, "protect", globalErrorHandler(e.status, e.message),
                              <<>>, NoView)
                ELSE [call EXCEPT !.pc = chain[Len(chain)], !.user = gate.user]]
    /\ UNCHANGED tasks
    /\ UNCHANGED taskFrame

\* getTasks: Task.find, 200
getTasks(s) ==
    /\ calls[s].pc = "getTasks"
    /\ LET ids == find(tasks, calls[s].user.id, statusFilter(calls[s].status))
       IN  calls' = [calls EXCEPT ![s] =
                Sent(@, "getTasks", Ok(200, "Tasks retrieved successfully"),
                     [k \in 1..Len(ids) |-> view(tasks, ids[k])], NoView)]
    /\ UNCHANGED tasks
    /\ UNCHANGED taskFrame

\* getTaskById: Task.findOne, 404 or 200
getTaskById(s) ==
    /\ calls[s].pc = "getTaskById"
    /\ LET i == findOneTask(tasks, calls[s].id, calls[s].user.id)
       IN  calls' = [calls EXCEPT ![s] =
                IF i = 0
                THEN Sent(@, "getTaskById", globalErrorHandler(404, "Task not found"),
                          <<>>, NoView)
                ELSE Sent(@, "getTaskById", Ok(200, "Task retrieved successfully"),
                          <<>>, view(tasks, i))]
    /\ UNCHANGED tasks
    /\ UNCHANGED taskFrame

\* createTask: Task.create with userId: req.user?.id, 201
createTask(s) ==
    /\ calls[s].pc = "createTask"
    /\ tasks' = Append(tasks,
            [userId |-> calls[s].user.id, title |-> TaskTitle,
             status |-> IF calls[s].status # Undefined THEN calls[s].status
                        ELSE "pending",
             deleted |-> FALSE])
    /\ calls' = [calls EXCEPT ![s] =
            Sent(@, "createTask", Ok(201, "Task created successfully"), <<>>,
                 view(tasks', Len(tasks')))]
    /\ UNCHANGED taskFrame

\* updateTask up to its second await: Task.findOne, 404 or on to the update
updateTask_findOne(s) ==
    /\ calls[s].pc = "updateTask"
    /\ calls' = [calls EXCEPT ![s] =
            IF findOneTask(tasks, calls[s].id, calls[s].user.id) = 0
            THEN Sent(@, "updateTask", globalErrorHandler(404, "Task not found"),
                      <<>>, NoView)
            ELSE [@ EXCEPT !.pc = "updateTask_findByIdAndUpdate"]]
    /\ UNCHANGED tasks
    /\ UNCHANGED taskFrame

\* updateTask from Task.findByIdAndUpdate(req.params.id, {...}, { new: true })
\* on: the document by its _id alone, null if there is none; the response
\* reads task?._id, task?.title, ... and is sent with 200
updateTask_findByIdAndUpdate(s) ==
    /\ calls[s].pc = "updateTask_findByIdAndUpdate"
    /\ LET id == calls[s].id
       IN  /\ tasks' = IF id \in Live(tasks)
                       THEN [tasks EXCEPT ![id].status =
                                IF calls[s].status # Undefined THEN calls[s].status
                                ELSE @]
                       ELSE tasks
           /\ calls' = [calls EXCEPT ![s] =
                    Sent(@, "updateTask", Ok(200, "Task updated successfully"), <<>>,
                         IF id \in Live(tasks) THEN view(tasks', id) ELSE NoView)]
    /\ UNCHANGED taskFrame

\* deleteTask up to its second await: Task.findOne, 404 or on to the delete
deleteTask_findOne(s) ==
    /\ calls[s].pc = "deleteTask"
    /\ calls' = [calls EXCEPT ![s] =
            IF findOneTask(tasks, calls[s].id, calls[s].user.id) = 0
            THEN Sent(@, "deleteTask", globalErrorHandler(404, "Task not found"),
                      <<>>, NoView)
            ELSE [@ EXCEPT !.pc = "deleteTask_findByIdAndDelete"]]
    /\ UNCHANGED tasks
    /\ UNCHANGED taskFrame

\* deleteTask from Task.findByIdAndDelete(req.params.id) on, 200
deleteTask_findByIdAndDelete(s) ==
    /\ calls[s].pc = "deleteTask_findByIdAndDelete"
    /\ LET id == calls[s].id
       IN  tasks' = IF id \in Live(tasks) THEN [tasks EXCEPT ![id] = Gone] ELSE tasks
    /\ calls' = [calls EXCEPT ![s] =
            Sent(@, "deleteTask", Ok(200, "Task deleted successfully"), <<>>, NoView)]
    /\ UNCHANGED taskFrame

\* the client has the response: the request is over
task_end(s) ==
    /\ calls[s].pc = "sent"
    /\ calls' = [calls EXCEPT ![s] = NoCall]
    /\ UNCHANGED tasks
    /\ UNCHANGED taskFrame

\* ------------------------------------------------------------------ the task routes
\* The server over a store in which both emails were registered at second
\* 0, the clients holding the responses: what register leaves behind.
Registered(i, email) ==
    LET tk == registerTokens(i, email, "user", 0)
    IN  [doc |-> [NewUser(email, "secret1") EXCEPT !.refreshToken = tk.refreshToken],
         line |-> [Entry("register", email, "secret1", NoHeader, NoToken,
                         Ok(201, "User registered successfully"),
                         [NoData EXCEPT
                            !.accessToken = tk.accessToken,
                            !.refreshToken = tk.refreshToken,
                            !.user = [id |-> i, email |-> email, role |-> "user"],
                            !.handlerRan = TRUE])
                   EXCEPT !.at = 0]]

InitRegistered ==
    /\ config = DefaultConfig
    /\ users = <<Registered(1, "a@x.com").doc, Registered(2, "b@x.com").doc>>
    /\ now = 0
    /\ slots = [s \in 1..MaxInFlight |-> Idle]
    /\ history = <<Registered(1, "a@x.com").line, Registered(2, "b@x.com").line>>
    /\ InitRest

\* what a client of a protected route sends as Authorization
TaskHeaders == {NoHeader} \cup {<<"Bearer", t>> : t \in IssuedAccess}

ApiGetTasks ==
    \E c \in Clients, h \in TaskHeaders, q \in QueryStatuses :
        task_arrive(c, "GET", "/", h, 0, q)

\* creations stop when the collection is full
RoomForTask ==
    Len(tasks) + Cardinality({c \in Clients : calls[c].pc = "createTask"}) < MaxTasks

ApiCreateTask ==
    /\ RoomForTask
    /\ \E c \in Clients, h \in TaskHeaders : task_arrive(c, "POST", "/", h, 0, Undefined)

ApiGetTaskById ==
    \E c \in Clients, h \in TaskHeaders, id \in TaskIds :
        task_arrive(c, "GET", "/:id", h, id, Undefined)

ApiUpdateTask ==
    \E c \in Clients, h \in TaskHeaders, id \in TaskIds :
        task_arrive(c, "PUT", "/:id", h, id, UpdateStatus)

ApiDeleteTask ==
    \E c \in Clients, h \in TaskHeaders, id \in TaskIds :
        task_arrive(c, "DELETE", "/:id", h, id, Undefined)

GetTasks == \E c \in Clients : getTasks(c)

GetTaskById == \E c \in Clients : getTaskById(c)

CreateTask == \E c \in Clients : createTask(c)

UpdateTaskFindOne == \E c \in Clients : updateTask_findOne(c)

UpdateTaskWrite == \E c \in Clients : updateTask_findByIdAndUpdate(c)

DeleteTaskFindOne == \E c \in Clients : deleteTask_findOne(c)

DeleteTaskWrite == \E c \in Clients : deleteTask_findByIdAndDelete(c)

TaskEnd == \E c \in Clients : task_end(c)

NextTasks ==
    \/ ApiGetTasks
    \/ ApiCreateTask
    \/ ApiGetTaskById
    \/ ApiUpdateTask
    \/ ApiDeleteTask
    \/ GetTasks
    \/ GetTaskById
    \/ CreateTask
    \/ UpdateTaskFindOne
    \/ UpdateTaskWrite
    \/ DeleteTaskFindOne
    \/ DeleteTaskWrite
    \/ TaskEnd

SpecTasks == InitRegistered /\ [][NextTasks]_vars

\* ------------------------------------------------------------------ every route
MaxApiAuth == 2         \* requests to /api/auth served next to the task requests

\* a request to /api/auth enters the handler its route mounts
auth_arrive(s, method, path, header, email, password, token) ==
    /\ LET chain == pipeline("/api/auth", method, path)
       IN  CASE chain = <<"register">> -> register_findOne(s, email, password)
             [] chain = <<"login">> -> login_findOne(s, email, password)
             [] chain = <<"refreshToken">> -> refreshToken(s, token)
             [] chain = <<"protect", "getMe">> -> protect(s, header)
             [] OTHER -> FALSE
    /\ UNCHANGED rest

\* one client that sends a request when it has the response to the last
Quiet == Busy = {} /\ \A c \in Clients : calls[c].pc = "idle"

AcceptingApi == Quiet /\ Len(history) < MaxApiAuth

RoutesRegister ==
    /\ AcceptingApi
    /\ \E e \in Emails, p \in RegisterPasswords :
            auth_arrive(1, "POST", "/register", NoHeader, e, p, NoToken)

RoutesLogin ==
    /\ AcceptingApi
    /\ \E e \in Emails, p \in RegisterPasswords :
            auth_arrive(1, "POST", "/login", NoHeader, e, p, NoToken)

RoutesRefresh ==
    /\ AcceptingApi
    /\ \E t \in IssuedRefresh : auth_arrive(1, "POST", "/refresh", NoHeader, "", "", t)

RoutesMe ==
    /\ AcceptingApi
    /\ \E h \in TaskHeaders : auth_arrive(1, "GET", "/me", h, "", "", NoToken)

RoutesGetTasks ==
    /\ Quiet
    /\ \E h \in TaskHeaders, q \in QueryStatuses : task_arrive("c1", "GET", "/", h, 0, q)

RoutesCreateTask ==
    /\ Quiet
    /\ RoomForTask
    /\ \E h \in TaskHeaders : task_arrive("c1", "POST", "/", h, 0, Undefined)

RoutesGetTaskById ==
    /\ Quiet
    /\ \E h \in TaskHeaders, id \in TaskIds :
            task_arrive("c1", "GET", "/:id", h, id, Undefined)

RoutesUpdateTask ==
    /\ Quiet
    /\ \E h \in TaskHeaders, id \in TaskIds :
            task_arrive("c1", "PUT", "/:id", h, id, UpdateStatus)

RoutesDeleteTask ==
    /\ Quiet
    /\ \E h \in TaskHeaders, id \in TaskIds :
            task_arrive("c1", "DELETE", "/:id", h, id, Undefined)

NextRoutes ==
    \/ RoutesRegister
    \/ RegisterCreate
    \/ RegisterSave
    \/ RoutesLogin
    \/ LoginCompare
    \/ LoginUpdate
    \/ RoutesRefresh
    \/ RoutesMe
    \/ GetMe
    \/ RoutesGetTasks
    \/ RoutesCreateTask
    \/ RoutesGetTaskById
    \/ RoutesUpdateTask
    \/ RoutesDeleteTask
    \/ GetTasks
    \/ GetTaskById
    \/ CreateTask
    \/ UpdateTaskFindOne
    \/ UpdateTaskWrite
    \/ DeleteTaskFindOne
    \/ DeleteTaskWrite
    \/ TaskEnd

SpecRoutes == Init /\ [][NextRoutes]_vars

\* ------------------------------------------------------------------ C14
\* protect has verified the token of this header at this second and has
\* attached its claims as the identity
PassedGate(header, user) ==
    /\ ~NoTokenHeader(header)
    /\ GoodAt(header[2], config.jwtSecret, now)
    /\ user = Claims(header[2])

TaskHandlers == {"getTasks", "getTaskById", "createTask", "updateTask", "deleteTask"}

\* C14: a request enters getMe, getTasks, getTaskById, createTask, updateTask
\* or deleteTask only in a step in which protect has verified that request's
\* token and attached its identity; a request to a task route that is
\* answered on arrival is answered by protect and leaves the collection
\* alone; only a request inside a handler answers as that handler or writes
\* the collection.  The routes of register, login and refresh mount their
\* handler alone, without protect.
C14_GateFirst ==
    [][/\ \A s \in Slots :
            (slots[s].pc # "getMe" /\ slots'[s].pc = "getMe")
                => PassedGate(slots'[s].header, slots'[s].user)
       /\ \A c \in Clients :
            /\ (calls[c].pc = "idle" /\ calls'[c].pc \notin {"idle", "sent"})
                    => /\ calls'[c].pc \in TaskHandlers
                       /\ PassedGate(calls'[c].header, calls'[c].user)
            /\ (calls[c].pc = "idle" /\ calls'[c].pc = "sent")
                    => /\ calls'[c].by = "protect"
                       /\ calls'[c].res.status = 401
                       /\ tasks' = tasks
            /\ (calls'[c].pc = "sent" /\ calls'[c].by \in TaskHandlers /\ calls[c].pc # "sent")
                    => calls[c].pc \notin {"idle", "sent"}
       /\ (Answered /\ Response.kind = "me" /\ Response.handlerRan)
            => \E s \in Slots : slots[s].pc = "getMe" /\ slots'[s].pc = "idle"
       /\ tasks' # tasks => \E c \in Clients : calls[c].pc \notin {"idle", "sent"}
       /\ pipeline("/api/auth", "POST", "/register") = <<"register">>
       /\ pipeline("/api/auth", "POST", "/login") = <<"login">>
       /\ pipeline("/api/auth", "POST", "/refresh") = <<"refreshToken">>]_vars

\* register was answered 201 to a request without Authorization header,
\* getMe has answered a request that passed the gate, and a task handler has
\* answered another
C14_Witness ==
    /\ \E i \in Lines : /\ history[i].kind = "register"
                        /\ history[i].status = 201
                        /\ history[i].header = NoHeader
    /\ \E i \in Lines : /\ history[i].kind = "me"
                        /\ history[i].handlerRan
                        /\ history[i].status = 200
    /\ calls["c1"].pc = "sent"
    /\ calls["c1"].by \in TaskHandlers
    /\ calls["c1"].res.success

\* ------------------------------------------------------------------ C15
\* the collection holds a document id that belongs to userId
Owned(ts, id, userId) == id \in Live(ts) /\ ts[id].userId = userId

\* C15: getTasks returns exactly documents whose userId is the requester's
\* id; getTaskById answers 200 with the document when it is the requester's
\* and 404 otherwise; updateTask and deleteTask answer 404 at their lookup
\* when the document is not the requester's; a document is modified or
\* deleted only by an update or delete of its owner; a new document gets the
\* creator's id as userId, and no step changes the userId of a document.
C15_OwnerScoping ==
    [][/\ \A c \in Clients :
            /\ (calls[c].pc = "getTasks" /\ calls'[c].pc = "sent")
                    => \A k \in 1..Len(calls'[c].tasks) :
                            Owned(tasks, calls'[c].tasks[k].id, calls[c].user.id)
            /\ (calls[c].pc = "getTaskById" /\ calls'[c].pc = "sent")
                    => IF Owned(tasks, calls[c].id, calls[c].user.id)
                       THEN /\ calls'[c].res.status = 200
                            /\ calls'[c].task = view(tasks, calls[c].id)
                       ELSE /\ calls'[c].res.status = 404
                            /\ calls'[c].task = NoView
            /\ (/\ calls[c].pc \in {"updateTask", "deleteTask"}
                /\ calls'[c] # calls[c]
                /\ ~Owned(tasks, calls[c].id, calls[c].user.id))
                    => /\ calls'[c].pc = "sent"
                       /\ calls'[c].res.status = 404
       /\ \A i \in 1..Len(tasks) :
            tasks'[i] # tasks[i]
                => /\ \E c \in Clients :
                        /\ calls[c].pc \in {"updateTask_findByIdAndUpdate",
                                            "deleteTask_findByIdAndDelete"}
                        /\ calls'[c].pc = "sent"
                        /\ calls[c].id = i
                        /\ calls[c].user.id = tasks[i].userId
                   /\ tasks'[i] = Gone \/ tasks'[i].userId = tasks[i].userId
       /\ Len(tasks') >= Len(tasks)
       /\ Len(tasks') > Len(tasks)
            => /\ Len(tasks') = Len(tasks) + 1
               /\ \E c \in Clients :
                    /\ calls[c].pc = "createTask"
                    /\ calls'[c].pc = "sent"
                    /\ tasks'[Len(tasks')].userId = calls[c].user.id
                    /\ calls[c].user.id \in 1..Len(users)]_vars

\* a document of account 1 is in the collection next to one of account 2,
\* and account 2 has just been answered 404 for the document of account 1
C15_Witness ==
    /\ \E i \in Live(tasks), j \in Live(tasks) :
            tasks[i].userId = 1 /\ tasks[j].userId = 2
    /\ \E c \in Clients, i \in Live(tasks) :
            /\ calls[c].pc = "sent"
            /\ calls[c].by \in {"getTaskById", "updateTask", "deleteTask"}
            /\ calls[c].user.id = 2
            /\ calls[c].id = i
            /\ tasks[i].userId = 1
            /\ calls[c].res.status = 404

\* ------------------------------------------------------------------ C20
\* C20: updateTask answers 200 only when its update has found the document,
\* which then exists and belongs to the caller, and the response carries the
\* id and the fields of that document; when the document is absent at the
\* time of the update the answer is 404 "Task not found".
C20_UpdateAnswersForATask ==
    [][\A c \in Clients :
        (calls[c].pc \in {"updateTask", "updateTask_findByIdAndUpdate"}
            /\ calls'[c].pc = "sent")
            => /\ calls'[c].res.status = 200
                    => /\ Owned(tasks, calls[c].id, calls[c].user.id)
                       /\ calls'[c].task = view(tasks', calls[c].id)
               /\ calls[c].id \notin Live(tasks)
                    => /\ calls'[c].res.status = 404
                       /\ calls'[c].res.message = "Task not found"]_vars

\* ------------------------------------------------------------------ C16
\* the status the failing handler had set on the response when it passed
\* the failure on in this step (200: none)
StatusSet ==
    CASE Response.kind = "register"
            -> IF \E s \in Slots : slots[s].pc = "register_create"
                                     /\ slots'[s].pc = "idle"
               THEN 200 ELSE 409
      [] Response.kind = "login" -> loginInvalidCredentials.status
      [] Response.kind = "refresh" -> refreshCatch(Response.message).status
      [] Response.kind = "me"
            -> IF Response.handlerRan THEN 404 ELSE protectCatch(Response.message).status

\* C16: a step answers at most one request; a failure that a handler passes
\* on is answered with success = false and a message, with the status the
\* handler had set, and with 500 when the status was still 200; the request
\* is over with that answer.
C16_FallbackErrorHandling ==
    [][/\ Len(history') \in {Len(history), Len(history) + 1}
       /\ (Answered /\ ~Response.success)
            => /\ Response.status = IF StatusSet # 200 THEN StatusSet ELSE 500
               /\ Response.status # 200
               /\ Response.message # ""
               /\ Cardinality({s \in Slots : slots'[s].pc # "idle"})
                    <= Cardinality({s \in Slots : slots[s].pc # "idle"})]_vars

\* a failure whose handler set no status was answered 500, others were
\* answered with the status their handler set
C16_Witness ==
    /\ \E i \in Lines : /\ ~history[i].success
                        /\ history[i].status = 500
                        /\ history[i].message = "E11000 duplicate key error"
    /\ \E i \in Lines : ~history[i].success /\ history[i].status \in {401, 409}

\* ================================================================== process
MaxFailures == 2        \* unhandled rejections and uncaught exceptions raised

\* the 'unhandledRejection' listener calling process.exit(1) itself
handleUnhandledRejectionExits(p) ==
    [p EXCEPT !.state = "exited", !.code = 1,
              !.failures = Append(@, "unhandledRejection")]

\* process.on('unhandledRejection'): server.close(callback); the server stops
\* listening, the callback waits for the open connections to end
handleUnhandledRejection(p) ==
    [p EXCEPT !.closing = TRUE, !.failures = Append(@, "unhandledRejection")]

\* the callback given to server.close: process.exit(1)
serverCloseCallback(p) == [p EXCEPT !.state = "exited", !.code = 1]

\* process.on('uncaughtException'): process.exit(1)
handleUncaughtException(p) ==
    [p EXCEPT !.state = "exited", !.code = 1,
              !.failures = Append(@, "uncaughtException")]

procFrame == <<config, users, now, slots, history, began, roleReq, tasks, calls>>

\* a promise is rejected with no handler
unhandledRejection ==
    /\ proc.state = "running"
    /\ Len(proc.failures) < MaxFailures
    /\ proc' = handleUnhandledRejection(proc)
    /\ UNCHANGED procFrame

\* an exception reaches the event loop
uncaughtException ==
    /\ proc.state = "running"
    /\ Len(proc.failures) < MaxFailures
    /\ proc' = handleUncaughtException(proc)
    /\ UNCHANGED procFrame

\* the server has closed: close was called and no connection is left
serverClosed ==
    /\ proc.state = "running"
    /\ proc.closing
    /\ Busy = {}
    /\ proc' = serverCloseCallback(proc)
    /\ UNCHANGED procFrame

\* the server takes a request while it listens and works on the requests it
\* has while the process runs
ProcessRegister ==
    /\ proc.state = "running"
    /\ ~proc.closing
    /\ AcceptingValid
    /\ \E s \in Slots, e \in Emails, p \in RegisterPasswords : register_findOne(s, e, p)
    /\ UNCHANGED rest

ProcessRegisterCreate ==
    /\ proc.state = "running"
    /\ \E s \in Slots : register_create(s)
    /\ UNCHANGED rest

ProcessRegisterSave ==
    /\ proc.state = "running"
    /\ \E s \in Slots : register_save(s)
    /\ UNCHANGED rest

NextProcess ==
    \/ ProcessRegister
    \/ ProcessRegisterCreate
    \/ ProcessRegisterSave
    \/ unhandledRejection
    \/ uncaughtException
    \/ serverClosed

\* the event loop runs every continuation that is ready: a handler goes on
\* after its await, the close callback runs once the server has closed
SpecProcess ==
    /\ Init
    /\ [][NextProcess]_vars
    /\ WF_vars(ProcessRegisterCreate)
    /\ WF_vars(ProcessRegisterSave)
    /\ WF_vars(serverClosed)

Failed == proc.failures # <<>>

Exited == proc.state = "exited"

\* C17: after an unhandled rejection or an uncaught exception the process
\* eventually exits with a failure code, and whenever it has exited the
\* close of the listening server had been initiated before.
C17_ExitAfterShutdown ==
    /\ [](Exited => proc.code = 1 /\ proc.closing)
    /\ (Failed ~> Exited)

\* C17 as the code has it: after an unhandled rejection or an uncaught
\* exception the process eventually exits with a failure code (the requests
\* in flight being worked off); an exit without a close of the server
\* initiated before happens only on an uncaught exception, which exits in
\* its own step, and an unhandled rejection initiates the close and leaves
\* the exit to the close callback.
C17_ExitAfterShutdownOrException ==
    /\ [](Exited => /\ proc.code = 1
                    /\ \/ proc.closing
                       \/ proc.failures[Len(proc.failures)] = "uncaughtException")
    /\ [][/\ (Len(proc'.failures) > Len(proc.failures)
                /\ proc'.failures[Len(proc'.failures)] = "unhandledRejection")
                    => proc'.closing /\ ~Exited'
          /\ (Len(proc'.failures) > Len(proc.failures)
                /\ proc'.failures[Len(proc'.failures)] = "uncaughtException")
                    => Exited' /\ proc'.closing = proc.closing
          /\ (~Exited /\ Exited' /\ proc'.failures = proc.failures)
                    => proc.closing /\ Busy = {}]_vars
    /\ (Failed ~> Exited)

\* after an unhandled rejection, and nothing else, the process has exited
\* from the close callback, with the server's close initiated and the
\* requests it had taken answered
C17_Witness ==
    /\ Exited
    /\ proc.closing
    /\ proc.failures = <<"unhandledRejection">>
    /\ Len(history) > 0

\* ------------------------------------------------------------------ C18
\* the gate's verdict on header h at second t, from the header, the access
\* secret and the clock alone
Admitted(h, t) == ~NoTokenHeader(h) /\ GoodAt(h[2], config.jwtSecret, t)

\* C18: whether the gate lets a request through, and the identity it
\* attaches, are a function of the Authorization header, the access-token
\* secret and the current second, whatever the accounts hold: a request
\* enters the handler exactly when its header carries an unexpired token
\* signed with the access secret, as the claims of that token, and is
\* answered 401 by the gate with no identity otherwise.
C18_GateStateless ==
    [][/\ \A s \in Slots :
            (slots[s].pc = "idle" /\ slots'[s].pc = "getMe")
                => /\ Admitted(slots'[s].header, now)
                   /\ slots'[s].user = Claims(slots'[s].header[2])
       /\ (Answered /\ Response.kind = "me" /\ slots' = slots)
            => /\ ~Admitted(Response.header, now)
               /\ Response.status = 401
               /\ Response.user = NoUser
               /\ ~Response.handlerRan]_vars

\* an access token issued by one response has passed the gate, and its
\* handler has answered 200, after a later successful login of the same
\* account wrote the account's refresh token
C18_Witness ==
    \E i \in Lines, j \in Lines, k \in Lines :
        /\ i < j /\ j < k
        /\ history[i].status \in {200, 201}
        /\ history[i].accessToken.str = "jwt"
        /\ SuccessfulLogin(j)
        /\ history[j].user.id = history[i].accessToken.id
        /\ history[k].kind = "me"
        /\ history[k].header = <<"Bearer", history[i].accessToken>>
        /\ history[k].handlerRan
        /\ history[k].status = 200
        /\ history[k].user = Claims(history[i].accessToken)

\* ------------------------------------------------------------------ C19
\* C19: a refresh that presents the unexpired refresh token returned by a
\* successful login of an account, with no later successful login of that
\* account before it, is answered 200; nothing else, the save of a register
\* in flight included, takes that token off the account.
C19_LoginTokenStaysValid ==
    \A j \in Lines, k \in Lines :
        (/\ j < k
         /\ SuccessfulLogin(j)
         /\ history[k].kind = "refresh"
         /\ history[k].token = history[j].refreshToken
         /\ GoodAt(history[k].token, config.jwtRefreshSecret, history[k].at)
         /\ \A m \in Lines : (j < m /\ m < k /\ SuccessfulLogin(m))
                                => history[m].user.id # history[j].user.id)
            => history[k].status = 200

====
